---- MODULE Spec2Model ----
(***************************************************************************)
(* Model of nbody-E.py: a direct-summation gravitational N-body code with  *)
(* a velocity-Verlet integrator (class Cluster) and its command-line       *)
(* driver.                                                                 *)
(*                                                                         *)
(* Numbers.  The program computes with Python floats.  The model computes  *)
(* with exact rationals [n |-> numerator, d |-> denominator > 0] in lowest *)
(* terms, so that equality of records is equality of values.  The rounding *)
(* of IEEE doubles is modelled where it decides what the program does      *)
(* next: in int(time_end / time_step + 1), the length of the run, which is *)
(* computed as the doubles compute it, to the last bit.  The positions,    *)
(* velocities and energies are exact; the exceptions Python raises on      *)
(* float operations (ZeroDivisionError on x / 0.0) are modelled.  Square   *)
(* roots are taken exactly, so the model is evaluated on configurations    *)
(* whose pairwise distances are rational.                                  *)
(***************************************************************************)
EXTENDS Integers, Sequences, FiniteSets, TLC

\* ------------------------------------------------------------------------
\* Bounds of the exploration
\* ------------------------------------------------------------------------
\* largest number of particles in the clusters given to the force kernel
MaxN == 3
\* the driver's loop is followed for at most this many iterations
MaxStepCalls == 205
\* largest number of successive calls a caller of the kernel makes
MaxCalls == 3

\* ------------------------------------------------------------------------
\* Float arithmetic, as exact rationals
\* ------------------------------------------------------------------------
Abs(x) == IF x < 0 THEN -x ELSE x

RECURSIVE GCD(_, _)
GCD(a, b) == IF b = 0 THEN a ELSE GCD(b, a % b)

\* the float n/d, in lowest terms with a positive denominator
Q(n, d) ==
  LET g == GCD(Abs(n), Abs(d))
      s == IF d < 0 THEN -1 ELSE 1
  IN  [n |-> s * (n \div g), d |-> s * (d \div g)]

Zero == [n |-> 0, d |-> 1]
One == [n |-> 1, d |-> 1]
Half == [n |-> 1, d |-> 2]

QNeg(x) == [n |-> -(x.n), d |-> x.d]

QAdd(x, y) ==
  LET g == GCD(x.d, y.d)
  IN  Q(x.n * (y.d \div g) + y.n * (x.d \div g), (x.d \div g) * y.d)

QSub(x, y) == QAdd(x, QNeg(y))

QMul(x, y) ==
  LET g1 == GCD(Abs(x.n), y.d)
      g2 == GCD(Abs(y.n), x.d)
  IN  [n |-> (x.n \div g1) * (y.n \div g2), d |-> (x.d \div g2) * (y.d \div g1)]

\* x / y for y # 0; the callers raise ZeroDivisionError when y = 0
QDiv(x, y) ==
  QMul(x, IF y.n < 0 THEN [n |-> -(y.d), d |-> -(y.n)] ELSE [n |-> y.d, d |-> y.n])

RECURSIVE SqrtSearch(_, _, _)
SqrtSearch(k, lo, hi) ==
  IF lo >= hi THEN lo
  ELSE LET mid == (lo + hi + 1) \div 2
       IN  IF mid * mid <= k THEN SqrtSearch(k, mid, hi) ELSE SqrtSearch(k, lo, mid - 1)

\* the integer square root of a perfect square (undefined on anything else)
ExactSqrt(k) ==
  LET s == SqrtSearch(k, 0, IF k < 46340 THEN k ELSE 46340)
  IN  CHOOSE t \in {s} : t * t = k

\* math.sqrt(x)
QSqrt(x) == [n |-> ExactSqrt(x.n), d |-> ExactSqrt(x.d)]

\* x ** 1.5
Pow15(x) == QMul(x, QSqrt(x))

\* ------------------------------------------------------------------------
\* Float arithmetic, as IEEE doubles (53 bits, round to nearest, ties to
\* even), for int(time_end / time_step + 1)
\* ------------------------------------------------------------------------
\* The significands do not fit the integers of the checker.  A natural number
\* is a sequence of limbs of LimbBits bits, the least significant first,
\* without leading zeros; <<>> is zero.
LimbBits == 15
BigBase == 2 ^ LimbBits

Min(x, y) == IF x < y THEN x ELSE y
Max(x, y) == IF x < y THEN y ELSE x

Digit(a, k) == IF k \in DOMAIN a THEN a[k] ELSE 0

BigTrim(a) ==
  LET nz == { k \in DOMAIN a : a[k] # 0 }
  IN  IF nz = {} THEN <<>>
      ELSE SubSeq(a, 1, CHOOSE m \in nz : \A k \in nz : k <= m)

\* a natural number of the checker, below 2^31
Big(n) == BigTrim(<<n % BigBase, (n \div BigBase) % BigBase, n \div (BigBase * BigBase)>>)

\* back, for a number below 2^31
BigToInt(a) == Digit(a, 1) + BigBase * Digit(a, 2) + BigBase * BigBase * Digit(a, 3)

\* the carry into limb k of a + b: a limb below k overflows, and the limbs
\* between pass the carry on
CarryInto(a, b, k) ==
  IF \E j \in 1..(k - 1) :
       /\ Digit(a, j) + Digit(b, j) >= BigBase
       /\ \A i \in (j + 1)..(k - 1) : Digit(a, i) + Digit(b, i) = BigBase - 1
  THEN 1 ELSE 0

BigAdd(a, b) ==
  BigTrim([k \in 1..(Max(Len(a), Len(b)) + 1) |->
             (Digit(a, k) + Digit(b, k) + CarryInto(a, b, k)) % BigBase])

\* the borrow from limb k of a - b
BorrowFrom(a, b, k) ==
  IF \E j \in 1..(k - 1) :
       /\ Digit(a, j) < Digit(b, j)
       /\ \A i \in (j + 1)..(k - 1) : Digit(a, i) = Digit(b, i)
  THEN 1 ELSE 0

\* a - b for a >= b
BigSub(a, b) ==
  BigTrim([k \in 1..Len(a) |->
             (a[k] - Digit(b, k) - BorrowFrom(a, b, k) + BigBase) % BigBase])

BigLess(a, b) ==
  \E k \in 1..Max(Len(a), Len(b)) :
    /\ Digit(a, k) < Digit(b, k)
    /\ \A i \in (k + 1)..Max(Len(a), Len(b)) : Digit(a, i) = Digit(b, i)

\* a * m for one limb m: the low halves of the products of the limbs, plus
\* their high halves one limb up
BigTimes(a, m) ==
  BigAdd([k \in 1..Len(a) |-> (a[k] * m) % BigBase],
         [k \in 1..(Len(a) + 1) |-> IF k = 1 THEN 0 ELSE (a[k - 1] * m) \div BigBase])

\* a * 2^s
BigShiftLeft(a, s) ==
  IF a = <<>> THEN <<>>
  ELSE [k \in 1..(s \div LimbBits) |-> 0] \o BigTimes(a, 2 ^ (s % LimbBits))

\* a \div 2^s
BigShiftRight(a, s) ==
  LET w == s \div LimbBits
      bits == s % LimbBits
  IN  IF Len(a) <= w THEN <<>>
      ELSE BigTrim([k \in 1..(Len(a) - w) |->
                      (a[k + w] \div (2 ^ bits))
                        + (Digit(a, k + w + 1) % (2 ^ bits)) * (2 ^ (LimbBits - bits))])

\* the number of bits of a
BitLength(a) ==
  IF a = <<>> THEN 0
  ELSE LimbBits * (Len(a) - 1)
         + CHOOSE n \in 1..LimbBits : 2 ^ (n - 1) <= a[Len(a)] /\ a[Len(a)] < 2 ^ n

\* Long division, one limb of the quotient at a time; the divisor d has its
\* top bit set.  The limb c of the quotient that the remainder r holds of d
\* is at most two below the estimate taken from the top of r and the top
\* limb of d.
HoldsLimb(r, d, p) == ~BigLess(r, p) /\ BigLess(r, BigAdd(p, d))

LimbNear(r, d, guess) ==
  CHOOSE c \in Max(0, guess - 2)..guess : HoldsLimb(r, d, BigTimes(d, c))

LimbOfQuotient(r, d) ==
  LimbNear(r, d, Min(BigBase - 1,
                     (Digit(r, Len(d) + 1) * BigBase + Digit(r, Len(d))) \div d[Len(d)]))

BigDivTake(r, q, d, c) == [q |-> BigTrim(<<c>> \o q), r |-> BigSub(r, BigTimes(d, c))]

BigDivDigit(r, q, d) == BigDivTake(r, q, d, LimbOfQuotient(r, d))

\* h is the quotient and the remainder of the limbs above x by d
BigDivLimb(h, x, d) ==
  IF h.r = <<>> /\ x = 0 THEN [q |-> BigTrim(<<0>> \o h.q), r |-> <<>>]
  ELSE BigDivDigit(BigTrim(<<x>> \o h.r), h.q, d)

\* the quotient and the remainder of the limbs k.. of a by d
RECURSIVE BigDivFrom(_, _, _)
BigDivFrom(a, d, k) ==
  IF k > Len(a) - Len(d) + 1
  THEN [q |-> <<>>, r |-> IF k > Len(a) THEN <<>> ELSE SubSeq(a, k, Len(a))]
  ELSE BigDivLimb(BigDivFrom(a, d, k + 1), a[k], d)

BigDivBack(h, s) == [q |-> h.q, r |-> BigShiftRight(h.r, s)]

BigDivShifted(a, b, s) ==
  BigDivBack(BigDivFrom(BigShiftLeft(a, s), BigShiftLeft(b, s), 1), s)

\* the quotient q and the remainder r of a by b > 0
BigDivMod(a, b) == BigDivShifted(a, b, LimbBits * Len(b) - BitLength(b))

\* A double is 0 or m * 2^e with TwoTo52 <= m < TwoTo53; it stands for the
\* magnitude of a float, and the callers keep the sign.  The doubles of
\* this program are far from the subnormal and from the infinite ones.
TwoTo52 == BigShiftLeft(<<1>>, 52)
TwoTo53 == BigShiftLeft(<<1>>, 53)
DoubleZero == [m |-> <<>>, e |-> 0]
DoubleOne == [m |-> TwoTo52, e |-> -52]

\* m * 2^e for TwoTo52 <= m <= TwoTo53
Significand(m, e) ==
  IF m = TwoTo53 THEN [m |-> TwoTo52, e |-> e + 1] ELSE [m |-> m, e |-> e]

\* the quotient q rounded to the nearest, ties to even: twice is twice the
\* remainder that the division by d left
RoundTo(q, twice, d, e) ==
  Significand(IF BigLess(d, twice) \/ (twice = d /\ Digit(q, 1) % 2 = 1)
              THEN BigAdd(q, <<1>>)
              ELSE q,
              e)

RoundQuotient(qr, d, e) ==
  IF qr.r = <<>> THEN Significand(qr.q, e)
  ELSE RoundTo(qr.q, BigShiftLeft(qr.r, 1), d, e)

RoundDivide(n, d, e) == RoundQuotient(BigDivMod(n, d), d, e)

\* n / d is in [2^52, 2^54)
RoundInRange(n, d, e) ==
  IF BigLess(n, BigShiftLeft(d, 53)) THEN RoundDivide(n, d, e)
  ELSE RoundDivide(n, BigShiftLeft(d, 1), e + 1)

\* num * 2^k / den is in [2^52, 2^54)
RoundScaled(num, den, k) ==
  IF k >= 0 THEN RoundInRange(BigShiftLeft(num, k), den, -k)
  ELSE RoundInRange(num, BigShiftLeft(den, -k), -k)

\* the double nearest to num / den >= 0, ties to the even significand
RoundToDouble(num, den) ==
  IF num = <<>> THEN DoubleZero
  ELSE RoundScaled(num, den, 53 - (BitLength(num) - BitLength(den)))

\* the double a rational is rounded to when Python reads it from decimal
\* digits (its magnitude)
ToDouble(x) == RoundToDouble(Big(Abs(x.n)), Big(x.d))

\* r * 2^e
Scaled(r, e) == IF r.m = <<>> THEN DoubleZero ELSE [m |-> r.m, e |-> r.e + e]

\* x / y on doubles, y # 0
DoubleDiv(x, y) ==
  IF x.m = <<>> THEN DoubleZero ELSE Scaled(RoundToDouble(x.m, y.m), x.e - y.e)

\* x and 1 in units of 2^e, for an e at most x.e and at most 0
InUnits(x, e) == BigShiftLeft(x.m, x.e - e)
OneInUnits(e) == BigShiftLeft(<<1>>, -e)

PlusOneIn(x, e) == Scaled(RoundToDouble(BigAdd(InUnits(x, e), OneInUnits(e)), <<1>>), e)

\* x + 1 on doubles
DoublePlusOne(x) == IF x.m = <<>> THEN DoubleOne ELSE PlusOneIn(x, Min(x.e, 0))

BigDistance(a, b) == IF BigLess(a, b) THEN BigSub(b, a) ELSE BigSub(a, b)

MinusPlusOneIn(x, e) ==
  Scaled(RoundToDouble(BigDistance(InUnits(x, e), OneInUnits(e)), <<1>>), e)

\* the magnitude of -x + 1 on doubles
DoubleMinusPlusOne(x) ==
  IF x.m = <<>> THEN DoubleOne ELSE MinusPlusOneIn(x, Min(x.e, 0))

\* x < 1 on doubles
DoubleBelowOne(x) == x.m = <<>> \/ x.e < -52

\* int(x) on a double >= 0 (below 2^31)
DoubleInt(x) ==
  BigToInt(IF x.e >= 0 THEN BigShiftLeft(x.m, x.e) ELSE BigShiftRight(x.m, -(x.e)))

\* int(-x + 1) on a double x >= 0
IntMinusPlusOne(x) ==
  IF DoubleBelowOne(x) THEN DoubleInt(DoubleMinusPlusOne(x))
  ELSE -DoubleInt(DoubleMinusPlusOne(x))

\* ------------------------------------------------------------------------
\* Particle and Cluster
\* ------------------------------------------------------------------------
Zero3 == <<Zero, Zero, Zero>>

\* the 5-tuple (mass, position, velocity, acceleration, previous acceleration)
Particle(mass, px, py, pz, vx, vy, vz) ==
  [mass |-> mass, r |-> <<px, py, pz>>, v |-> <<vx, vy, vz>>, a |-> Zero3, oa |-> Zero3]

\* a first loop that forgets the handoff to oa
ResetAccelerationsNoHandoff(c) ==
  [k \in DOMAIN c |-> [c[k] EXCEPT !.a = Zero3]]

\* first loop of accelerate: oa <- a, a <- 0
ResetAccelerations(c) ==
  [k \in DOMAIN c |-> [c[k] EXCEPT !.oa = c[k].a, !.a = Zero3]]

\* dx, dy, dz of the pair (i, j)
Delta(c, i, j) ==
  [k \in 1..3 |-> QSub(c[i].r[k], c[j].r[k])]

\* dx * dx + dy * dy + dz * dz
SquaredNorm(d) ==
  QAdd(QAdd(QMul(d[1], d[1]), QMul(d[2], d[2])), QMul(d[3], d[3]))

\* (dx * dx + dy * dy + dz * dz) ** 1.5
DistanceCube(c, i, j) == Pow15(SquaredNorm(Delta(c, i, j)))

\* a pair update that divides mass2 twice
PairUpdateSwappedMass(c, i, j) ==
  LET d == Delta(c, i, j)
      dc == DistanceCube(c, i, j)
      tmp1 == QDiv(c[j].mass, dc)
      tmp2 == QDiv(c[j].mass, dc)
  IN  [from1 |-> [k \in 1..3 |-> QMul(tmp1, d[k])],
       to2 |-> [k \in 1..3 |-> QMul(tmp2, d[k])]]

\* the body of the inner loop for the pair (i, j), i < j, once distance_cube
\* is known to be non-zero: what is subtracted from a1 and what is added to a2
PairUpdate(c, i, j) ==
  LET d == Delta(c, i, j)
      dc == DistanceCube(c, i, j)
      tmp1 == QDiv(c[j].mass, dc)
      tmp2 == QDiv(c[i].mass, dc)
  IN  [from1 |-> [k \in 1..3 |-> QMul(tmp1, d[k])],
       to2 |-> [k \in 1..3 |-> QMul(tmp2, d[k])]]

\* a pairwise loop that passes over a pair at distance 0.0
RECURSIVE PairLoopSkipSingular(_, _, _)
PairLoopSkipSingular(c, i, j) ==
  IF i > Len(c) THEN [cluster |-> c, raised |-> FALSE]
  ELSE IF j > Len(c) THEN PairLoopSkipSingular(c, i + 1, i + 2)
  ELSE IF DistanceCube(c, i, j) = Zero THEN PairLoopSkipSingular(c, i, j + 1)
  ELSE LET u == PairUpdate(c, i, j)
           c2 == [c EXCEPT ![i].a = [k \in 1..3 |-> QSub(c[i].a[k], u.from1[k])],
                           ![j].a = [k \in 1..3 |-> QAdd(c[j].a[k], u.to2[k])]]
       IN  PairLoopSkipSingular(c2, i, j + 1)

\* the pairwise loop of accelerate from the pair (i, j) on; it stops at the
\* first pair whose distance_cube is 0.0, where the division raises
RECURSIVE PairLoop(_, _, _)
PairLoop(c, i, j) ==
  IF i > Len(c) THEN [cluster |-> c, raised |-> FALSE]
  ELSE IF j > Len(c) THEN PairLoop(c, i + 1, i + 2)
  ELSE IF DistanceCube(c, i, j) = Zero THEN [cluster |-> c, raised |-> TRUE]
  ELSE LET u == PairUpdate(c, i, j)
           c2 == [c EXCEPT ![i].a = [k \in 1..3 |-> QSub(c[i].a[k], u.from1[k])],
                           ![j].a = [k \in 1..3 |-> QAdd(c[j].a[k], u.to2[k])]]
       IN  PairLoop(c2, i, j + 1)

\* an accelerate that accumulates onto the accelerations it finds
Cluster_accelerate_NoReset(c) == PairLoop(c, 1, 2)

\* Cluster.accelerate
Cluster_accelerate(c) == PairLoop(ResetAccelerations(c), 1, 2)


\* ke of get_energy: the sum of 0.5 * mass * (vx * vx + vy * vy + vz * vz)
RECURSIVE KineticLoop(_, _)
KineticLoop(c, k) ==
  IF k > Len(c) THEN Zero
  ELSE QAdd(QMul(QMul(Half, c[k].mass), SquaredNorm(c[k].v)), KineticLoop(c, k + 1))

KineticEnergy(c) == KineticLoop(c, 1)

\* pe of get_energy over combinations(self, 2) from the pair (i, j) on, added
\* to acc; the division raises at a pair whose distance is 0.0
RECURSIVE PotentialLoop(_, _, _, _)
PotentialLoop(c, i, j, acc) ==
  IF i > Len(c) THEN [value |-> acc, raised |-> FALSE]
  ELSE IF j > Len(c) THEN PotentialLoop(c, i + 1, i + 2, acc)
  ELSE LET dist == QSqrt(SquaredNorm(Delta(c, i, j)))
       IN  IF dist = Zero THEN [value |-> acc, raised |-> TRUE]
           ELSE PotentialLoop(c, i, j + 1,
                              QSub(acc, QDiv(QMul(c[i].mass, c[j].mass), dist)))

PotentialEnergy(c) == PotentialLoop(c, 1, 2, Zero)

\* Cluster.get_energy: ke + pe, or the ZeroDivisionError of the pe loop
Cluster_get_energy(c) ==
  LET pe == PotentialEnergy(c)
  IN  [value |-> QAdd(KineticEnergy(c), pe.value), raised |-> pe.raised]

\* first loop of step: r += dt * v + 0.5 * dt * dt * a
MovePositions(c, dt) ==
  LET half_dt_square == QMul(QMul(Half, dt), dt)
  IN  [k \in DOMAIN c |->
        [c[k] EXCEPT !.r = [x \in 1..3 |->
           QAdd(c[k].r[x], QAdd(QMul(dt, c[k].v[x]), QMul(half_dt_square, c[k].a[x])))]]]

\* a velocity update with + for *: v += 0.5 * dt + (a + oa)
UpdateVelocitiesPlus(c, dt) ==
  LET half_dt == QMul(Half, dt)
  IN  [k \in DOMAIN c |->
        [c[k] EXCEPT !.v = [x \in 1..3 |->
           QAdd(c[k].v[x], QAdd(half_dt, QAdd(c[k].a[x], c[k].oa[x])))]]]

\* last loop of step: v += 0.5 * dt * (a + oa)
UpdateVelocities(c, dt) ==
  LET half_dt == QMul(Half, dt)
  IN  [k \in DOMAIN c |->
        [c[k] EXCEPT !.v = [x \in 1..3 |->
           QAdd(c[k].v[x], QMul(half_dt, QAdd(c[k].a[x], c[k].oa[x])))]]]

\* a step that evaluates the forces before it moves the particles
Cluster_step_StaleForces(c, dt) ==
  LET acc == Cluster_accelerate(c)
  IN  IF acc.raised THEN acc
      ELSE [cluster |-> UpdateVelocities(MovePositions(acc.cluster, dt), dt), raised |-> FALSE]

\* Cluster.step: the velocities are left alone when accelerate raises
Cluster_step(c, dt) ==
  LET acc == Cluster_accelerate(MovePositions(c, dt))
  IN  IF acc.raised THEN acc
      ELSE [cluster |-> UpdateVelocities(acc.cluster, dt), raised |-> FALSE]


\* ------------------------------------------------------------------------
\* The driver (__main__): its inputs
\* ------------------------------------------------------------------------
\* A token of the command line or of an input line: num says whether float()
\* accepts it, val is the float it denotes when it does.
Num(n, d) == [num |-> TRUE, val |-> Q(n, d)]
Text == [num |-> FALSE, val |-> Zero]

\* float(x): the value of a numeric token, ValueError on any other
Float(tok) == [raised |-> ~tok.num, value |-> tok.val]

\* a name that is not bound yet
Unset == [n |-> 0, d |-> 0]

\* time_step = 0.001
time_step == Q(1, 1000)

\* the default of time_end, 10.
DefaultTimeEnd == Q(10, 1)

\* old_energy = energy0 = energy = -0.25
InitialEnergy == Q(-1, 4)

NoError == [type |-> "none", at |-> "none"]

\* an end time parser that also swallows the ValueError of float()
ParseEndTimeCatchAll(args) ==
  IF Len(args) < 1 \/ Float(args[1]).raised
  THEN [time_end |-> DefaultTimeEnd, raised |-> "none"]
  ELSE [time_end |-> Float(args[1]).value, raised |-> "none"]

\* try: time_end = float(sys.argv[2]) / except IndexError: time_end = 10.
\* args are the command-line words after the input file's name
ParseEndTime(args) ==
  IF Len(args) < 1 THEN [time_end |-> DefaultTimeEnd, raised |-> "none"]
  ELSE IF Float(args[1]).raised THEN [time_end |-> Unset, raised |-> "ValueError"]
  ELSE [time_end |-> Float(args[1]).value, raised |-> "none"]

\* the double that time_step = 0.001 is
DoubleTimeStep == ToDouble(time_step)

\* |time_end / time_step|, the quotient of the two doubles, itself a double
DoubleQuotient(te) == DoubleDiv(ToDouble(te), DoubleTimeStep)

\* a range stop without the + 1
RangeStopNoPlusOne(te) ==
  IF te.n >= 0 THEN DoubleInt(DoubleQuotient(te)) ELSE -DoubleInt(DoubleQuotient(te))

\* int(time_end / time_step + 1), the stop of range(1, ...), in doubles: the
\* quotient is rounded, then the sum, then int() truncates toward zero
RangeStop(te) ==
  IF te.n >= 0 THEN DoubleInt(DoublePlusOne(DoubleQuotient(te)))
  ELSE IntMinusPlusOne(DoubleQuotient(te))

\* line.split()[1:]
Fields(line) == IF line = <<>> THEN <<>> ELSE Tail(line)

\* a reader that catches every exception of the line, not TypeError alone
ReadLineCatchAll(c, line) ==
  LET f == Fields(line)
  IN  IF (\E k \in DOMAIN f : Float(f[k]).raised) \/ Len(f) # 7
      THEN [cluster |-> c, raised |-> "none"]
      ELSE [cluster |-> Append(c, Particle(f[1].val, f[2].val, f[3].val, f[4].val,
                                           f[5].val, f[6].val, f[7].val)),
            raised |-> "none"]

\* a reader that takes the first seven fields of a longer line
ReadLineAtLeastSeven(c, line) ==
  LET f == Fields(line)
  IN  IF \E k \in DOMAIN f : Float(f[k]).raised
      THEN [cluster |-> c, raised |-> "ValueError"]
      ELSE IF Len(f) < 7 THEN [cluster |-> c, raised |-> "none"]
      ELSE [cluster |-> Append(c, Particle(f[1].val, f[2].val, f[3].val, f[4].val,
                                           f[5].val, f[6].val, f[7].val)),
            raised |-> "none"]

\* try: cluster.append(Particle(*[float(x) for x in line.split()[1:]]))
\* except TypeError: pass
\* The list of floats is built first, so a field float() rejects raises
\* ValueError whatever the number of fields; Particle raises TypeError on a
\* number of arguments other than seven, and that one is caught.
ReadLine(c, line) ==
  LET f == Fields(line)
  IN  IF \E k \in DOMAIN f : Float(f[k]).raised
      THEN [cluster |-> c, raised |-> "ValueError"]
      ELSE IF Len(f) # 7 THEN [cluster |-> c, raised |-> "none"]
      ELSE [cluster |-> Append(c, Particle(f[1].val, f[2].val, f[3].val, f[4].val,
                                           f[5].val, f[6].val, f[7].val)),
            raised |-> "none"]

\* ------------------------------------------------------------------------
\* Inputs explored
\* ------------------------------------------------------------------------
I(n) == Num(n, 1)

\* an input line: a label and its fields
Labelled(fields) == <<Text>> \o fields

\* single particles: moving (ke = 2), moving (ke = 9), at rest (ke = 0)
LineA == Labelled(<<I(1), I(0), I(0), I(0), I(2), I(0), I(0)>>)
LineB == Labelled(<<I(2), I(1), I(-1), I(0), I(1), I(2), I(-2)>>)
LineRest == Labelled(<<I(3), I(1), I(2), I(3), I(0), I(0), I(0)>>)
\* a second particle at the position of LineA
LineOnA == Labelled(<<I(5), I(0), I(0), I(0), I(1), I(1), I(1)>>)
\* two particles at one place, away from the origin
LineFar1 == Labelled(<<I(2), I(3), I(4), I(0), I(0), I(0), I(0)>>)
LineFar2 == Labelled(<<I(3), I(3), I(4), I(0), I(0), I(1), I(0)>>)
\* two test particles (mass 0) that meet after one step
LineT1 == Labelled(<<I(0), I(0), I(0), I(0), I(1), I(0), I(0)>>)
LineT2 == Labelled(<<I(0), Num(2, 1000), I(0), I(0), I(-1), I(0), I(0)>>)
\* two equal masses at rest, 0.01 apart on the x axis
LineP1 == Labelled(<<I(2), I(0), I(0), I(0), I(0), I(0), I(0)>>)
LineP2 == Labelled(<<I(2), Num(1, 100), I(0), I(0), I(0), I(0), I(0)>>)
\* two equal masses at rest, 0.03 apart along (1, 2, 2)
LineS1 == Labelled(<<I(54), I(0), I(0), I(0), I(0), I(0), I(0)>>)
LineS2 == Labelled(<<I(54), Num(1, 100), Num(2, 100), Num(2, 100), I(0), I(0), I(0)>>)

\* clusters of at most one particle, and clusters whose particles coincide
\* from the start or after a step
FreeBodies ==
  { <<>>, <<LineA>>, <<LineB>>, <<LineRest>>, <<LineA, LineOnA>>,
    <<LineP1, LineFar1, LineFar2>>, <<LineT1, LineT2>> }

\* two-body clusters
OrbitBodies == { <<LineP1, LineP2>>, <<LineS1, LineS2>> }

\* lines with a number of numeric fields other than seven
SkippedLines ==
  { <<>>,
    <<Text>>,
    Labelled(<<I(1), I(2), I(3)>>),
    Labelled(<<I(1), I(0), I(0), I(0), I(2), I(0), I(0), I(7)>>),
    <<I(1), I(0), I(0), I(0), I(2), I(0), I(0)>> }

\* lines with a field that float() rejects
RejectedLines ==
  { Labelled(<<I(1), Text, I(0), I(0), I(2), I(0), I(0)>>),
    Labelled(<<Text>>) }

InsertAt(body, k, line) ==
  SubSeq(body, 1, k) \o <<line>> \o SubSeq(body, k + 1, Len(body))

\* the bodies, alone and with one more line at any place
FilesOf(bodies) ==
  bodies \cup
  { InsertAt(b, k, l) : <<b, k, l>> \in
      { t \in bodies \X (0..3) \X (SkippedLines \cup RejectedLines) : t[2] <= Len(t[1]) } }

\* end times of 0, 1, 1, 3 steps
ShortEndTimes == { <<I(0)>>, <<Num(1, 1000)>>, <<Num(3, 2000)>>, <<Num(3, 1000)>> }

\* no end time, a rejected one, and end times of up to 200 steps; the double
\* quotient of 0.043 by 0.001 is below 43
AllEndTimes ==
  ShortEndTimes \cup
  { <<>>, <<Text>>, <<Num(-1, 1000)>>, <<Num(1, 2000)>>, <<Num(43, 1000)>>,
    <<Num(199, 2000)>>, <<Num(1, 10)>>, <<Num(1, 5)>>, <<Num(401, 2000)>> }

\* The runs: every file with every end time, except that the two-body orbits
\* are followed for a few steps only (they are unstable, and over many steps
\* the rounding of their coordinates, which is not modelled, decides where
\* they go).
Runs == (FilesOf(FreeBodies) \X AllEndTimes) \cup (FilesOf(OrbitBodies) \X ShortEndTimes)


\* ------------------------------------------------------------------------
\* State
\* ------------------------------------------------------------------------
VARIABLES
  args,        \* sys.argv[2:], the words after the input file's name
  file,        \* the lines of the input file, each split into words
  pc,          \* where the driver is: start, load, loop, done, crashed; api
  error,       \* the exception that ended the run, and the place it was raised
  time_end,
  lineno,      \* the next line of the file to read
  cluster,
  stop,        \* the stop of the range the loop runs over
  step,        \* the loop variable of the driver
  energy,
  old_energy,
  energy0,
  progress,    \* the progress lines printed: t, E, dE/E
  final,       \* the drift printed by the last line
  stepCalls,   \* history: the number of calls of cluster.step
  evals,       \* history: the number of calls of accelerate
  before,      \* history: the cluster handed to the latest call of accelerate
  samples      \* history: the values get_energy returned, in order

vars ==
  <<args, file, pc, error, time_end, lineno, cluster, stop, step, energy,
    old_energy, energy0, progress, final, stepCalls, evals, before, samples>>

\* ------------------------------------------------------------------------
\* The driver (__main__)
\* ------------------------------------------------------------------------
Init ==
  /\ \E run \in Runs : file = run[1] /\ args = run[2]
  /\ pc = "start"
  /\ error = NoError
  /\ time_end = Unset
  /\ lineno = 1
  /\ cluster = <<>>
  /\ stop = 0
  /\ step = 0
  /\ energy = Unset
  /\ old_energy = Unset
  /\ energy0 = Unset
  /\ progress = <<>>
  /\ final = Unset
  /\ stepCalls = 0
  /\ evals = 0
  /\ before = <<>>
  /\ samples = <<>>

\* lines 65-71: the end time, then the empty cluster
ParseArguments ==
  /\ pc = "start"
  /\ LET p == ParseEndTime(args)
     IN  IF p.raised # "none"
         THEN /\ pc' = "crashed"
              /\ error' = [type |-> p.raised, at |-> "argv"]
              /\ UNCHANGED time_end
         ELSE /\ pc' = "load"
              /\ time_end' = p.time_end
              /\ UNCHANGED error
  /\ UNCHANGED <<args, file, lineno, cluster, stop, step, energy, old_energy,
                 energy0, progress, final, stepCalls, evals, before, samples>>

\* lines 73-77: one line of the input file
LoadLine ==
  /\ pc = "load"
  /\ lineno <= Len(file)
  /\ LET got == ReadLine(cluster, file[lineno])
     IN  IF got.raised # "none"
         THEN /\ pc' = "crashed"
              /\ error' = [type |-> got.raised, at |-> "load"]
              /\ UNCHANGED <<cluster, lineno>>
         ELSE /\ cluster' = got.cluster
              /\ lineno' = lineno + 1
              /\ UNCHANGED <<pc, error>>
  /\ UNCHANGED <<args, file, time_end, stop, step, energy, old_energy, energy0,
                 progress, final, stepCalls, evals, before, samples>>

\* lines 79-81, at the end of the file: the three energies, the first forces,
\* the range of the loop
InitialForces ==
  /\ pc = "load"
  /\ lineno > Len(file)
  /\ energy' = InitialEnergy
  /\ old_energy' = InitialEnergy
  /\ energy0' = InitialEnergy
  /\ before' = cluster
  /\ evals' = evals + 1
  /\ LET acc == Cluster_accelerate(cluster)
     IN  /\ cluster' = acc.cluster
         /\ IF acc.raised
            THEN /\ pc' = "crashed"
                 /\ error' = [type |-> "ZeroDivisionError", at |-> "accelerate"]
                 /\ UNCHANGED <<stop, step>>
            ELSE /\ pc' = "loop"
                 /\ stop' = RangeStop(time_end)
                 /\ step' = 1
                 /\ UNCHANGED error
  /\ UNCHANGED <<args, file, time_end, lineno, progress, final, stepCalls, samples>>

\* lines 82-89: one iteration of the loop
LoopBody ==
  /\ pc = "loop"
  /\ step < stop
  /\ stepCalls < MaxStepCalls
  /\ stepCalls' = stepCalls + 1
  /\ evals' = evals + 1
  /\ before' = MovePositions(cluster, time_step)
  /\ LET s == Cluster_step(cluster, time_step)
         e == Cluster_get_energy(s.cluster)
     IN  /\ cluster' = s.cluster
         /\ IF s.raised
            THEN /\ pc' = "crashed"
                 /\ error' = [type |-> "ZeroDivisionError", at |-> "step"]
                 /\ UNCHANGED <<step, energy, old_energy, progress, samples>>
            ELSE IF step % 100 # 0
            THEN /\ step' = step + 1
                 /\ UNCHANGED <<pc, error, energy, old_energy, progress, samples>>
            ELSE IF e.raised
            THEN /\ pc' = "crashed"
                 /\ error' = [type |-> "ZeroDivisionError", at |-> "get_energy"]
                 /\ UNCHANGED <<step, energy, old_energy, progress, samples>>
            ELSE /\ energy' = e.value
                 /\ samples' = Append(samples, e.value)
                 /\ IF old_energy = Zero
                    THEN \* (energy - old_energy) / old_energy raises
                         /\ pc' = "crashed"
                         /\ error' = [type |-> "ZeroDivisionError", at |-> "report"]
                         /\ UNCHANGED <<step, old_energy, progress>>
                    ELSE /\ progress' = Append(progress,
                              [t |-> QMul(time_step, Q(step, 1)),
                               E |-> e.value,
                               dE |-> QDiv(QSub(e.value, old_energy), old_energy)])
                         /\ old_energy' = e.value
                         /\ step' = step + 1
                         /\ UNCHANGED <<pc, error>>
  /\ UNCHANGED <<args, file, time_end, lineno, stop, energy0, final>>

\* line 90, once the range is exhausted (energy0 is -0.25, never 0.0)
Finish ==
  /\ pc = "loop"
  /\ step >= stop
  /\ final' = QDiv(QSub(energy, energy0), energy0)
  /\ pc' = "done"
  /\ UNCHANGED <<args, file, error, time_end, lineno, cluster, stop, step, energy,
                 old_energy, energy0, progress, stepCalls, evals, before, samples>>

Next == ParseArguments \/ LoadLine \/ InitialForces \/ LoopBody \/ Finish

Spec == Init /\ [][Next]_vars


\* ------------------------------------------------------------------------
\* The force kernel and the energy called directly, on clusters at rest
\* ------------------------------------------------------------------------
Point(x, y, z) == <<Q(x, 1), Q(y, 1), Q(z, 1)>>

\* places with rational distances to one another: the corners of a 3 x 4
\* rectangle (sides 3 and 4, diagonals 5), and a triangle of sides 7, 7, 12
\* out of the coordinate planes
PointFamilies ==
  { <<Point(0, 0, 0), Point(3, 0, 0), Point(0, 4, 0), Point(3, 4, 0)>>,
    <<Point(0, 0, 0), Point(2, 3, 6), Point(2, 3, -6)>> }

Masses == { Q(1, 1), Q(2, 1) }

\* clusters of at most MaxN particles at distinct places of one family, as
\* Particle builds them
KernelClusters ==
  UNION { UNION { { [k \in 1..n |->
                      Particle(m[k], fam[at[k]][1], fam[at[k]][2], fam[at[k]][3],
                               One, Zero, QNeg(One))] :
                    <<at, m>> \in { t \in [1..n -> 1..Len(fam)] \X [1..n -> Masses] :
                                      \A i, j \in 1..n : i # j => t[1][i] # t[1][j] } } :
                  n \in 0..MaxN } :
          fam \in PointFamilies }

InitKernel ==
  /\ cluster \in KernelClusters
  /\ pc = "api"
  /\ file = <<>>
  /\ args = <<>>
  /\ error = NoError
  /\ time_end = Unset
  /\ lineno = 1
  /\ stop = 0
  /\ step = 0
  /\ energy = Unset
  /\ old_energy = Unset
  /\ energy0 = Unset
  /\ progress = <<>>
  /\ final = Unset
  /\ stepCalls = 0
  /\ evals = 0
  /\ before = <<>>
  /\ samples = <<>>

\* cluster.accelerate()
CallAccelerate ==
  /\ pc = "api"
  /\ evals < MaxCalls
  /\ before' = cluster
  /\ evals' = evals + 1
  /\ LET acc == Cluster_accelerate(cluster)
     IN  /\ cluster' = acc.cluster
         /\ IF acc.raised
            THEN /\ pc' = "crashed"
                 /\ error' = [type |-> "ZeroDivisionError", at |-> "accelerate"]
            ELSE UNCHANGED <<pc, error>>
  /\ UNCHANGED <<args, file, time_end, lineno, stop, step, energy, old_energy,
                 energy0, progress, final, stepCalls, samples>>

\* energy = cluster.get_energy()
CallGetEnergy ==
  /\ pc = "api"
  /\ Len(samples) < MaxCalls
  /\ LET e == Cluster_get_energy(cluster)
     IN  IF e.raised
         THEN /\ pc' = "crashed"
              /\ error' = [type |-> "ZeroDivisionError", at |-> "get_energy"]
              /\ UNCHANGED <<energy, samples>>
         ELSE /\ energy' = e.value
              /\ samples' = Append(samples, e.value)
              /\ UNCHANGED <<pc, error>>
  /\ UNCHANGED <<args, file, time_end, lineno, cluster, stop, step, old_energy,
                 energy0, progress, final, stepCalls, evals, before>>

NextKernel == CallAccelerate \/ CallGetEnergy

SpecKernel == InitKernel /\ [][NextKernel]_vars


\* ------------------------------------------------------------------------
\* Properties
\* ------------------------------------------------------------------------
\* |r_i - r_j| ^ 3, from the distance itself
CubedDistance(c, i, j) ==
  LET dist == QSqrt(SquaredNorm(Delta(c, i, j)))
  IN  QMul(dist, QMul(dist, dist))

\* Newton's sum for particle i over the others, from j on:
\* the sum of -(mass[j] / |r_i - r_j|^3) * (r_i - r_j)
RECURSIVE SumOverOthers(_, _, _)
SumOverOthers(c, i, j) ==
  IF j > Len(c) THEN Zero3
  ELSE IF j = i THEN SumOverOthers(c, i, j + 1)
  ELSE LET w == QNeg(QDiv(c[j].mass, CubedDistance(c, i, j)))
           rest == SumOverOthers(c, i, j + 1)
       IN  [k \in 1..3 |-> QAdd(QMul(w, Delta(c, i, j)[k]), rest[k])]

NetAcceleration(c, i) == SumOverOthers(c, i, 1)

\* two particles of c are at one place
Coincident(c) ==
  \E i, j \in DOMAIN c : i # j /\ c[i].r = c[j].r

\* C1: after a call of accelerate on particles at distinct places, each
\* particle's acceleration is Newton's sum over all the other particles,
\* whatever its acceleration was before the call.
C1_AccelerationIsPairwiseSum ==
  (pc = "api" /\ evals >= 1 /\ ~Coincident(cluster)) =>
    \A i \in DOMAIN cluster : cluster[i].a = NetAcceleration(cluster, i)

\* three particles, evaluated a second time from non-zero accelerations
C1_Witness ==
  /\ pc = "api"
  /\ evals >= 2
  /\ Len(cluster) = 3
  /\ \A i \in DOMAIN cluster : before[i].a # Zero3 /\ cluster[i].a # Zero3

\* C2: in the driver's run, whenever the loop is about to call step (or has
\* just finished), the particles are at distinct places, the ones the latest
\* evaluation saw, and each particle's acceleration is the kernel's value for
\* these positions.
C2_ForcesMatchPositionsAtStepEntry ==
  pc = "loop" =>
    /\ ~Coincident(cluster)
    /\ \A i \in DOMAIN cluster :
         /\ cluster[i].r = before[i].r
         /\ cluster[i].a = NetAcceleration(cluster, i)

\* a two-body cluster about to take its third step
C2_Witness ==
  /\ pc = "loop"
  /\ stepCalls = 2
  /\ step < stop
  /\ Len(cluster) = 2
  /\ cluster[1].a # Zero3
  /\ cluster[1].oa # cluster[1].a

\* C3: a second call of accelerate with the positions unchanged leaves the
\* accelerations the first call produced, and previous_acceleration equal to
\* them.
C3_RepeatedEvaluation ==
  (pc = "api" /\ evals >= 2) =>
    \A i \in DOMAIN cluster :
      /\ before[i].r = cluster[i].r
      /\ cluster[i].a = before[i].a
      /\ cluster[i].oa = before[i].a

C3_Witness ==
  /\ pc = "api"
  /\ evals = 2
  /\ Len(cluster) >= 2
  /\ \A i \in DOMAIN cluster : cluster[i].oa # Zero3

\* the sum of mass * acceleration over the cluster
RECURSIVE MassWeightedSum(_, _)
MassWeightedSum(c, k) ==
  IF k > Len(c) THEN Zero3
  ELSE LET rest == MassWeightedSum(c, k + 1)
       IN  [x \in 1..3 |-> QAdd(QMul(c[k].mass, c[k].a[x]), rest[x])]

\* C4: in a pass of accelerate, mass[i] times what the pair (i, j) adds to
\* acceleration[i] is minus mass[j] times what it adds to acceleration[j],
\* and after the pass the mass-weighted sum of the accelerations is zero.
C4_PairwiseAntisymmetry ==
  (pc = "api" /\ ~Coincident(cluster)) =>
    /\ \A i, j \in DOMAIN cluster : i < j =>
         LET u == PairUpdate(cluster, i, j)
         IN  \A x \in 1..3 :
               QMul(cluster[i].mass, QNeg(u.from1[x]))
                 = QNeg(QMul(cluster[j].mass, u.to2[x]))
    /\ evals >= 1 => MassWeightedSum(cluster, 1) = Zero3

\* three particles of unequal masses after a pass
C4_Witness ==
  /\ pc = "api"
  /\ evals >= 1
  /\ Len(cluster) = 3
  /\ cluster[1].mass # cluster[2].mass
  /\ cluster[1].a # Zero3

\* the particles Particle builds from the lines with exactly seven fields
\* after the label, all of them numeric, in the order of the file
IsParticleLine(line) ==
  /\ Len(Fields(line)) = 7
  /\ \A k \in DOMAIN Fields(line) : Fields(line)[k].num

HasRejectedField(line) ==
  \E k \in DOMAIN Fields(line) : ~Fields(line)[k].num

ExpectedCluster(lines) ==
  LET good == SelectSeq(lines, IsParticleLine)
  IN  [k \in DOMAIN good |->
        [mass |-> good[k][2].val,
         r |-> <<good[k][3].val, good[k][4].val, good[k][5].val>>,
         v |-> <<good[k][6].val, good[k][7].val, good[k][8].val>>,
         a |-> Zero3, oa |-> Zero3]]

\* 0.5 * mass * |v|^2 of the only particle of the file, 0 without one
InitialKineticEnergy(lines) ==
  LET c == ExpectedCluster(lines)
  IN  IF c = <<>> THEN Zero
      ELSE QMul(Q(c[1].mass.n, 2 * c[1].mass.d),
                QAdd(QMul(c[1].v[1], c[1].v[1]),
                     QAdd(QMul(c[1].v[2], c[1].v[2]), QMul(c[1].v[3], c[1].v[3]))))

\* C5: with at most one particle, after the first evaluation and after any
\* number of steps, acceleration and previous_acceleration are zero, the
\* velocity is the one that was loaded, the potential energy is zero, and
\* get_energy returns the initial kinetic energy (as every sample taken did).
C5_ZeroCase ==
  (evals >= 1 /\ Len(cluster) <= 1) =>
    /\ \A i \in DOMAIN cluster :
         /\ cluster[i].a = Zero3
         /\ cluster[i].oa = Zero3
         /\ cluster[i].v = ExpectedCluster(file)[i].v
    /\ PotentialEnergy(cluster) = [value |-> Zero, raised |-> FALSE]
    /\ Cluster_get_energy(cluster)
         = [value |-> InitialKineticEnergy(file), raised |-> FALSE]
    /\ \A k \in DOMAIN samples : samples[k] = InitialKineticEnergy(file)

\* one moving particle, 200 steps on, sampled twice
C5_Witness ==
  /\ Len(cluster) = 1
  /\ stepCalls >= 200
  /\ Len(samples) = 2
  /\ cluster[1].v # Zero3
  /\ cluster[1].r # ExpectedCluster(file)[1].r
  /\ samples[2] # Zero

\* C6 as stated: a force evaluation that meets two particles at one place
\* raises nothing, and the run goes on.
C6_RunContinuesAfterSingularity ==
  (evals >= 1 /\ Coincident(before)) => pc # "crashed"

\* C6, amended: a force evaluation that meets two particles at one place
\* raises ZeroDivisionError, which ends the run there: the first evaluation
\* before any step, an evaluation inside step before the velocities are
\* updated; no final drift is printed.
C6_SingularityEndsRun ==
  (evals >= 1 /\ Coincident(before)) =>
    /\ pc = "crashed"
    /\ error.type = "ZeroDivisionError"
    /\ error.at = (IF stepCalls = 0 THEN "accelerate" ELSE "step")
    /\ final = Unset
    /\ \A i \in DOMAIN cluster : cluster[i].v = before[i].v /\ cluster[i].r = before[i].r

\* the third pair of three particles raises, after the first two were added
C6_Witness ==
  /\ pc = "crashed"
  /\ error = [type |-> "ZeroDivisionError", at |-> "accelerate"]
  /\ Len(cluster) = 3
  /\ cluster[1].r # cluster[2].r
  /\ cluster[2].r = cluster[3].r
  /\ \A i \in DOMAIN cluster : cluster[i].a # Zero3

\* end_time / step_size truncated to an integer, for an end time >= 0: the
\* quotient is the double that the division of the two doubles gives
TruncatedQuotient(te) == DoubleInt(DoubleQuotient(te))

\* the number of values of range(1, int(end_time / step_size + 1)), for an
\* end time >= 0
RangeLength(te) == DoubleInt(DoublePlusOne(DoubleQuotient(te))) - 1

\* adding 1.0 to the double quotient rounds the sum up to an integer
IsInteger(x) == x.e >= 0 \/ BigShiftLeft(BigShiftRight(x.m, -(x.e)), -(x.e)) = x.m

ExceedsSum(r, q, e) == BigLess(BigAdd(InUnits(q, e), OneInUnits(e)), InUnits(r, e))

RoundedUpToInteger(q, r) == IsInteger(r) /\ ExceedsSum(r, q, Min(Min(q.e, r.e), 0))

SumRoundsUpToIntegerAt(q) == RoundedUpToInteger(q, DoublePlusOne(q))

SumRoundsUpToInteger(te) == SumRoundsUpToIntegerAt(DoubleQuotient(te))

\* C7 as stated: a finished run has called step the truncated quotient plus
\* one times.
C7_StepCountPlusOne ==
  (pc = "done" /\ time_end.n >= 0) => stepCalls = TruncatedQuotient(time_end) + 1

\* C7, amended: for an end time >= 0 a run that finishes has called step once
\* for each value of range(1, int(end_time / step_size + 1)), the quotient
\* and the sum being rounded as doubles, and has printed the final drift; a
\* run that an exception ended has called it at most that often.  That
\* number is the double quotient truncated to an integer (not plus one)
\* unless adding 1.0 rounds the sum up to an integer.
C7_StepCount ==
  (pc \in {"done", "crashed"} /\ time_end # Unset /\ time_end.n >= 0) =>
    /\ stepCalls <= RangeLength(time_end)
    /\ pc = "done" => (stepCalls = RangeLength(time_end) /\ final # Unset)
    /\ ~SumRoundsUpToInteger(time_end) =>
         RangeLength(time_end) = TruncatedQuotient(time_end)

\* a finished run of 42 steps for the end time 0.043: the double quotient
\* 0.043 / 0.001 is 42.99999999999999
C7_Witness ==
  /\ pc = "done"
  /\ time_end = Q(43, 1000)
  /\ stepCalls = 42
  /\ stop = 43

\* C8: the final drift is (E_last - E_first) / E_first over the energies the
\* driver sampled with get_energy.
C8_FinalDriftOverSamples ==
  (pc = "done" /\ samples # <<>> /\ samples[1] # Zero) =>
    final = QDiv(QSub(samples[Len(samples)], samples[1]), samples[1])

\* C9 as stated: with the end time missing or rejected by float(), the run
\* goes on with the default end time.
C9_FallbackOnMissingOrInvalid ==
  (pc # "start" /\ (args = <<>> \/ ~args[1].num)) =>
    /\ time_end = DefaultTimeEnd
    /\ error.at # "argv"

\* C9, amended: with the end time missing the run goes on with the default
\* 10.0; with an end time float() rejects, ValueError ends the run before
\* anything is loaded.
C9_FallbackOnMissingOnly ==
  pc # "start" =>
    /\ args = <<>> => (time_end = DefaultTimeEnd /\ error.at # "argv")
    /\ (args # <<>> /\ ~args[1].num) =>
         /\ pc = "crashed"
         /\ error = [type |-> "ValueError", at |-> "argv"]
         /\ time_end = Unset
         /\ cluster = <<>>
         /\ lineno = 1
    /\ (args # <<>> /\ args[1].num) => (time_end = args[1].val /\ error.at # "argv")

\* a rejected end time ended the run in front of a file with particles
C9_Witness ==
  /\ pc = "crashed"
  /\ error.at = "argv"
  /\ ExpectedCluster(file) # <<>>

\* C10 as stated: no line is fatal, and the cluster holds the particles of
\* the lines read so far that have seven numeric fields.
C10_NoLineIsFatal ==
  /\ error.at # "load"
  /\ pc = "load" => cluster = ExpectedCluster(SubSeq(file, 1, lineno - 1))

\* C10, amended: a line whose fields are all numeric but not seven in number
\* is passed over, a line of seven numeric fields appends one particle with
\* zero accelerations, in file order; a line with a field float() rejects
\* raises ValueError, which ends the run there.
C10_SkipWrongCountOnly ==
  /\ pc = "load" =>
       /\ cluster = ExpectedCluster(SubSeq(file, 1, lineno - 1))
       /\ \A k \in 1..(lineno - 1) : ~HasRejectedField(file[k])
  /\ error.at = "load" =>
       /\ error.type = "ValueError"
       /\ HasRejectedField(file[lineno])
       /\ cluster = ExpectedCluster(SubSeq(file, 1, lineno - 1))
  /\ (pc \notin {"start", "load"} /\ error.at \notin {"argv", "load"}) =>
       /\ Len(cluster) = Len(ExpectedCluster(file))
       /\ \A k \in DOMAIN file : ~HasRejectedField(file[k])

\* a file read to its end, one line of it passed over
C10_Witness ==
  /\ pc = "load"
  /\ lineno > Len(file)
  /\ Len(file) = 4
  /\ Len(cluster) = 3
  /\ ~IsParticleLine(file[2])

====
